---- MODULE Spec2Model ----
\* Model of src/deprecated/app_with_mapselector.py: the Dublin retrofitting
\* tool.  The model covers the rating classifier (pd.cut bins), the retrofit
\* selector, the fabric mutator, the cost estimator and the pipeline in main.
\*
\* Numbers.  A float is modelled as an extended rational: a record
\*   [k |-> "fin", n |-> numerator, d |-> denominator > 0]   (in lowest terms)
\* or one of the IEEE specials NaN, PosInf, NegInf.  U-values are kept in
\* hundredths of W/m2K (0.5 is 50), areas in whole m2, costs in whole euro.
\*
\* Frames.  A pandas Series is a sequence of [i |-> row label, v |-> value];
\* a DataFrame is a sequence of rows, each a record with its label in "index".
\* Arithmetic between two Series aligns on the row labels, as pandas does.
EXTENDS Integers, Sequences, FiniteSets, TLC

VARIABLES
    energy_values,                 \* a Series of energy values to classify
    classified,                    \* what the classifier returned for it
    pc,                            \* position of the script run in main
    raw_building_stock,            \* main:53, the cached frame of _load_bers
    pre_retrofit_stock,            \* main:73
    post_retrofit_stock,           \* main:74, 116-126
    total_floor_area,              \* main:77
    pre_retrofit_fabric_heat_loss, \* main:85
    retrofits,                     \* main:87-113, component -> returned dict
    percentages,                   \* slider state, component -> percent 0..100
    call,                          \* locals of the last retrofit_fabric_component
    energy_value_improvement,      \* main:121
    ber_ratings,                   \* plot_ber_rating_breakdown: pre / post labels
    ber_bands,                     \* plot_ber_band_breakdown: pre / post labels
    np_random_global,              \* numpy's process-wide RandomState
    first_selection                \* the first selection made since the start

vars == <<energy_values, classified, pc, raw_building_stock, pre_retrofit_stock, post_retrofit_stock,
          total_floor_area, pre_retrofit_fabric_heat_loss, retrofits,
          percentages, call, energy_value_improvement, ber_ratings, ber_bands,
          np_random_global, first_selection>>

----------------------------------------------------------------------------
\* Extended rationals: the float arithmetic the pipeline uses.

NaN == [k |-> "nan", n |-> 0, d |-> 1]
PosInf == [k |-> "pinf", n |-> 0, d |-> 1]
NegInf == [k |-> "ninf", n |-> 0, d |-> 1]

Abs(x) == IF x < 0 THEN -x ELSE x

RECURSIVE GCD(_, _)
GCD(a, b) == IF b = 0 THEN a ELSE GCD(b, a % b)

\* n/d in lowest terms, d > 0.
Rat(n, d) ==
    LET g == GCD(Abs(n), d)
    IN  [k |-> "fin", n |-> n \div g, d |-> d \div g]

Fin(n) == [k |-> "fin", n |-> n, d |-> 1]

IsFin(x) == x.k = "fin"
IsNaN(x) == x.k = "nan"

\* x < y on floats; every comparison with NaN is false.
FLt(x, y) ==
    CASE IsNaN(x) \/ IsNaN(y) -> FALSE
      [] x.k = "ninf" -> y.k # "ninf"
      [] x.k = "pinf" -> FALSE
      [] y.k = "ninf" -> FALSE
      [] y.k = "pinf" -> TRUE
      [] OTHER -> x.n * y.d < y.n * x.d

FLe(x, y) == ~IsNaN(x) /\ ~IsNaN(y) /\ ~FLt(y, x)

FNeg(x) ==
    CASE x.k = "fin" -> [x EXCEPT !.n = -x.n]
      [] x.k = "pinf" -> NegInf
      [] x.k = "ninf" -> PosInf
      [] OTHER -> NaN

FAdd(x, y) ==
    CASE IsNaN(x) \/ IsNaN(y) -> NaN
      [] IsFin(x) /\ IsFin(y) -> Rat(x.n * y.d + y.n * x.d, x.d * y.d)
      [] IsFin(x) -> y
      [] IsFin(y) -> x
      [] x.k = y.k -> x
      [] OTHER -> NaN

FSub(x, y) == FAdd(x, FNeg(y))

FMul(x, y) ==
    LET sx == IF IsFin(x) THEN x.n ELSE IF x.k = "pinf" THEN 1 ELSE -1
        sy == IF IsFin(y) THEN y.n ELSE IF y.k = "pinf" THEN 1 ELSE -1
    IN  CASE IsNaN(x) \/ IsNaN(y) -> NaN
          [] IsFin(x) /\ IsFin(y) -> Rat(x.n * y.n, x.d * y.d)
          [] sx = 0 \/ sy = 0 -> NaN
          [] (sx > 0) = (sy > 0) -> PosInf
          [] OTHER -> NegInf

\* Float division as numpy performs it on a Series: no exception, x/0 is
\* +-inf for x # 0 and NaN for 0/0.
FDiv(x, y) ==
    CASE IsNaN(x) \/ IsNaN(y) -> NaN
      [] IsFin(x) /\ IsFin(y) ->
            IF y.n # 0
            THEN Rat(IF y.n > 0 THEN x.n * y.d ELSE -(x.n * y.d),
                     x.d * Abs(y.n))
            ELSE IF x.n = 0 THEN NaN
            ELSE IF x.n > 0 THEN PosInf ELSE NegInf
      [] IsFin(x) -> Fin(0)
      [] IsFin(y) -> IF (x.k = "pinf") = (y.n >= 0) THEN PosInf ELSE NegInf
      [] OTHER -> NaN

----------------------------------------------------------------------------
\* Series and frames.

Range(s) == {s[k] : k \in 1..Len(s)}
Labels(s) == {s[k].i : k \in 1..Len(s)}
Values(s) == [k \in 1..Len(s) |-> s[k].v]

\* The value of Series s at row label l (labels are unique).
At(s, l) == (CHOOSE k \in 1..Len(s) : s[k].i = l)

\* A set of naturals as the ascending sequence of its members.
RECURSIVE SortedSeq(_)
SortedSeq(S) ==
    IF S = {} THEN <<>>
    ELSE LET m == CHOOSE x \in S : \A y \in S : x <= y
         IN  <<m>> \o SortedSeq(S \ {m})

\* A fresh Series over the default RangeIndex 0..n-1.
RangeSeries(values) == [k \in 1..Len(values) |-> [i |-> k - 1, v |-> values[k]]]

\* a (op) b for two Series: pandas aligns on the union of the row labels and
\* gives NaN where either side has no such row.
\* op is the operator's name: "sub", "mul" or "truediv".
ApplyOp(op, x, y) ==
    CASE op = "sub" -> FSub(x, y)
      [] op = "mul" -> FMul(x, y)
      [] op = "truediv" -> FDiv(x, y)

SeriesBinOp(op, a, b) ==
    LET idx == SortedSeq(Labels(a) \cup Labels(b))
    IN  [k \in 1..Len(idx) |->
            [i |-> idx[k],
             v |-> IF idx[k] \in Labels(a) /\ idx[k] \in Labels(b)
                   THEN ApplyOp(op, a[At(a, idx[k])].v, b[At(b, idx[k])].v)
                   ELSE NaN]]

\* A Series of integers as a Series of floats.
AsFloat(s) == [k \in 1..Len(s) |-> [i |-> s[k].i, v |-> Fin(s[k].v)]]

\* Series.sum(): NaN entries are skipped.
RECURSIVE SeriesSum(_)
SeriesSum(s) ==
    IF s = <<>> THEN Fin(0)
    ELSE LET h == Head(s).v
         IN  IF IsNaN(h) THEN SeriesSum(Tail(s)) ELSE FAdd(h, SeriesSum(Tail(s)))

\* frame[column] as a Series carrying the frame's row labels.
Column(frame, c) == [k \in 1..Len(frame) |-> [i |-> frame[k].index, v |-> frame[k][c]]]

\* frame[column] = series: assignment aligns on the row labels.
SetColumn(frame, c, s) ==
    [k \in 1..Len(frame) |->
        [frame[k] EXCEPT ![c] = IF frame[k].index \in Labels(s)
                                THEN s[At(s, frame[k].index)].v
                                ELSE NaN]]

\* frame[mask] for a boolean sequence mask in row order.
RECURSIVE SelectRows(_, _)
SelectRows(frame, keep) ==
    IF frame = <<>> THEN <<>>
    ELSE (IF Head(keep) THEN <<Head(frame)>> ELSE <<>>)
         \o SelectRows(Tail(frame), Tail(keep))

----------------------------------------------------------------------------
\* Rating classification: pd.cut(values, bins, labels) with right=True and
\* include_lowest=False.

RatingBins == <<NegInf, Fin(25), Fin(50), Fin(75), Fin(100), Fin(125), Fin(150),
                Fin(175), Fin(200), Fin(225), Fin(260), Fin(300), Fin(340),
                Fin(380), Fin(450), PosInf>>

RatingLabels == <<"A1", "A2", "A3", "B1", "B2", "B3", "C1", "C2", "C3", "D1",
                  "D2", "E1", "E2", "F", "G">>

BandBins == <<NegInf, Fin(150), Fin(300), PosInf>>

BandLabels == <<"A-B", "C-D", "E-G">>

\* bins.searchsorted(x, side="left"): the bins that are < x.
searchsorted_left(bins, x) == Cardinality({k \in 1..Len(bins) : FLt(bins[k], x)})

\* pd.cut with right=False: side="right", so a value on a breakpoint goes to
\* the bin above it.
cut_right_open(x, bins, labels) ==
    LET ids == Cardinality({k \in 1..Len(bins) : FLe(bins[k], x)})
    IN  IF IsNaN(x) \/ ids = 0 \/ ids = Len(bins) THEN "nan" ELSE labels[ids]

\* One element of pd.cut: NaN, and a value outside (bins[0], bins[-1]], get
\* no category ("nan" once .astype(str) is applied).
cut(x, bins, labels) ==
    LET ids == searchsorted_left(bins, x)
    IN  IF IsNaN(x) \/ ids = 0 \/ ids = Len(bins) THEN "nan" ELSE labels[ids]

_get_ber_rating(values) ==
    [k \in 1..Len(values) |->
        [i |-> values[k].i, v |-> cut(values[k].v, RatingBins, RatingLabels)]]

_get_ber_band(values) ==
    [k \in 1..Len(values) |->
        [i |-> values[k].i, v |-> cut(values[k].v, BandBins, BandLabels)]]

\* .astype(str).value_counts().sort_index(): the count of every label that
\* occurs ("nan" among them), keyed by label.
value_counts(labelled) ==
    [l \in {labelled[k].v : k \in 1..Len(labelled)} |->
        Cardinality({k \in 1..Len(labelled) : labelled[k].v = l})]

_get_ber_rating_breakdown(values) == value_counts(_get_ber_rating(values))

_get_ber_band_breakdown(values) == value_counts(_get_ber_band(values))

----------------------------------------------------------------------------
\* The seeded generator behind Series.sample(random_state=...).  numpy's
\* Mersenne Twister is modelled by a linear congruential generator: what the
\* model keeps is that a generator is a state, that seeding fixes the state,
\* and that every draw advances it.

RngModulus == 65536
RngMultiplier == 75
RngIncrement == 74

\* np.random.RandomState(seed)
RandomState(seed) == seed % RngModulus

RngNext(s) == (RngMultiplier * s + RngIncrement) % RngModulus

\* A draw from 0..n-1 out of the state's high bits.
RngScale == 256
RngInterval(s, n) == (s \div RngScale) % n

Swap(x, a, b) == [x EXCEPT ![a] = x[b], ![b] = x[a]]

\* RandomState.shuffle of x[1..i+1]: for i down to 1, swap x[i] with x[j],
\* j drawn from 0..i.  (Positions are 1-based here.)
RECURSIVE shuffle(_, _, _)
shuffle(x, i, s) ==
    IF i < 1 THEN [x |-> x, s |-> s]
    ELSE LET s1 == RngNext(s)
             j == RngInterval(s1, i + 1)
         IN  shuffle(Swap(x, i + 1, j + 1), i - 1, s1)

\* RandomState.choice(n, size, replace=False): permutation(n)[:size].
choice(n, size, s) ==
    LET p == shuffle([k \in 1..n |-> k], n - 1, s)
    IN  [locs |-> [k \in 1..size |-> p.x[k]], s |-> p.s]

\* Python's round(): halves go to the even neighbour.
\* The argument is num/100.
round_hundredths(num) ==
    LET q == num \div 100
        r == num % 100
    IN  IF r > 50 \/ (r = 50 /\ q % 2 = 1) THEN q + 1 ELSE q

\* Series.sample(frac=percent/100) with no random_state: the draw comes from
\* the process-wide generator and advances it.
sample_global(series, percent, random_state, g) ==
    LET n == round_hundredths(percent * Len(series))
        c == choice(Len(series), n, g)
    IN  [rows |-> [k \in 1..n |-> series[c.locs[k]]], g |-> c.s]

\* Series.sample(frac=percent/100, random_state=random_state).  An int
\* random_state makes a fresh generator for this call, so the process-wide
\* generator g is neither read nor advanced; it is returned as it was.
sample(series, percent, random_state, g) ==
    LET n == round_hundredths(percent * Len(series))
        c == choice(Len(series), n, RandomState(random_state))
    IN  [rows |-> [k \in 1..n |-> series[c.locs[k]]], g |-> g]

DefaultRandomState == 42

\* The selection with "at or over the threshold" in place of "over".
_select_buildings_at_or_over(original_uvalues, percentage_retrofitted, threshold_uvalue, random_state, g) ==
    LET at_or_over ==
            [k \in 1..Len(original_uvalues) |-> original_uvalues[k].v >= threshold_uvalue]
        drawn == sample(SelectRows(original_uvalues, at_or_over),
                        percentage_retrofitted, random_state, g)
    IN  [mask |-> [k \in 1..Len(original_uvalues) |->
                      original_uvalues[k].i \in Labels(drawn.rows)],
         g |-> drawn.g]

_select_buildings_to_retrofit(original_uvalues, percentage_retrofitted, threshold_uvalue, random_state, g) ==
    LET where_uvalue_is_over_threshold ==
            [k \in 1..Len(original_uvalues) |-> original_uvalues[k].v > threshold_uvalue]
        drawn == sample(SelectRows(original_uvalues, where_uvalue_is_over_threshold),
                        percentage_retrofitted, random_state, g)
    IN  [mask |-> [k \in 1..Len(original_uvalues) |->
                      original_uvalues[k].i \in Labels(drawn.rows)],
         g |-> drawn.g]

\* The mutator without the .copy(): the assignment lands in the caller's
\* Series.
_retrofit_fabric_in_place(original_uvalues, to_retrofit, new_uvalue) ==
    LET written == [k \in 1..Len(original_uvalues) |->
                       [i |-> original_uvalues[k].i,
                        v |-> IF to_retrofit[k] THEN new_uvalue ELSE original_uvalues[k].v]]
    IN  [original_uvalues |-> written, retrofitted_uvalues |-> written]

\* Returns the retrofitted copy, and the caller's Series as the call leaves
\* it: the assignment goes to the copy, so the original is as it was.
\* to_retrofit is a boolean array: .loc applies it by position.
_retrofit_fabric(original_uvalues, to_retrofit, new_uvalue) ==
    [original_uvalues |-> original_uvalues,
     retrofitted_uvalues |->
        [k \in 1..Len(original_uvalues) |->
            [i |-> original_uvalues[k].i,
             v |-> IF to_retrofit[k] THEN new_uvalue ELSE original_uvalues[k].v]]]

\* pd.Series([cost] * to_retrofit, dtype="int64") * areas: the left factor is
\* a new Series over 0..n-1, the right one carries the stock's row labels.
_estimate_cost_of_fabric_retrofits(to_retrofit, cost, areas) ==
    SeriesBinOp("mul",
                AsFloat(RangeSeries([k \in 1..Len(to_retrofit) |->
                                        cost * (IF to_retrofit[k] THEN 1 ELSE 0)])),
                AsFloat(areas))

Components == {"wall", "roof", "window"}

\* The defaults main passes for each component (main:87-113).
target_uvalue_default(c) ==
    CASE c = "wall" -> 20 [] c = "roof" -> 13 [] c = "window" -> 20
threshold_uvalue_default(c) == 50
lower_cost_bound_default(c) ==
    CASE c = "wall" -> 50 [] c = "roof" -> 5 [] c = "window" -> 30
upper_cost_bound_default(c) ==
    CASE c = "wall" -> 300 [] c = "roof" -> 30 [] c = "window" -> 150

UvalueColumn(c) ==
    CASE c = "wall" -> "wall_uvalue" [] c = "roof" -> "roof_uvalue"
      [] c = "window" -> "window_uvalue"
AreaColumn(c) ==
    CASE c = "wall" -> "wall_area" [] c = "roof" -> "roof_area"
      [] c = "window" -> "window_area"

to_millions == Rat(1, 1000000)

\* retrofit_fabric_component from line 451 on, given the widget values.  The
\* record holds the locals, the returned dict (uvalues, lower_bound_cost,
\* upper_bound_cost), the caller's frame and the process-wide generator as
\* the call leaves them.
retrofit_fabric_component(building_stock, component, percentage_retrofitted, threshold_uvalue, lower_bound_cost, upper_bound_cost, g) ==
    LET original_uvalues == Column(building_stock, UvalueColumn(component))
        areas == Column(building_stock, AreaColumn(component))
        selection == _select_buildings_to_retrofit(original_uvalues,
                        percentage_retrofitted, threshold_uvalue, DefaultRandomState, g)
        buildings_to_retrofit == selection.mask
        fabric == _retrofit_fabric(original_uvalues, buildings_to_retrofit,
                                   target_uvalue_default(component))
        lower_costs == _estimate_cost_of_fabric_retrofits(
                            buildings_to_retrofit, lower_bound_cost, areas)
        upper_costs == _estimate_cost_of_fabric_retrofits(
                            buildings_to_retrofit, upper_bound_cost, areas)
    IN  [component |-> component,
         original_uvalues |-> original_uvalues,
         areas |-> areas,
         percentage_retrofitted |-> percentage_retrofitted,
         threshold_uvalue |-> threshold_uvalue,
         lower_bound_cost_input |-> lower_bound_cost,
         upper_bound_cost_input |-> upper_bound_cost,
         buildings_to_retrofit |-> buildings_to_retrofit,
         lower_costs |-> lower_costs,
         upper_costs |-> upper_costs,
         uvalues |-> fabric.retrofitted_uvalues,
         lower_bound_cost |-> FMul(SeriesSum(lower_costs), to_millions),
         upper_bound_cost |-> FMul(SeriesSum(upper_costs), to_millions),
         building_stock |-> SetColumn(building_stock, UvalueColumn(component),
                                      fabric.original_uvalues),
         g |-> selection.g]

----------------------------------------------------------------------------
\* Heat loss (calculate_fabric_heat_loss).  The two library calls are
\* rc_building_model's: the fabric heat loss coefficient is the sum of
\* area * U-value over the five plane elements plus the thermal bridging
\* factor times their total area [W/K]; the yearly heat loss is that
\* coefficient times a fixed positive number of degree-kilohours [kWh].

FabricElements == <<"roof", "wall", "floor", "window", "door">>

ElementArea(row, e) ==
    CASE e = "roof" -> row.roof_area [] e = "wall" -> row.wall_area
      [] e = "floor" -> row.floor_area [] e = "window" -> row.window_area
      [] e = "door" -> row.door_area
ElementUvalue(row, e) ==
    CASE e = "roof" -> row.roof_uvalue [] e = "wall" -> row.wall_uvalue
      [] e = "floor" -> row.floor_uvalue [] e = "window" -> row.window_uvalue
      [] e = "door" -> row.door_uvalue

\* The sum of f[e] over the elements e of a sequence of names.
RECURSIVE SumOver(_, _)
SumOver(f, seq) == IF seq = <<>> THEN 0 ELSE f[Head(seq)] + SumOver(f, Tail(seq))

\* thermal_bridging_factor = 0.05, in hundredths.
thermal_bridging_factor == 5

DegreeKiloHours == 60

\* In hundredths of W/K: U-values are in hundredths.
fab_calculate_fabric_heat_loss(row) ==
    LET plane == Range(FabricElements)
    IN  SumOver([e \in plane |-> ElementArea(row, e) * ElementUvalue(row, e)], FabricElements)
        + thermal_bridging_factor
            * SumOver([e \in plane |-> ElementArea(row, e)], FabricElements)

htuse_calculate_heat_loss_per_year(heat_loss_w_k) == heat_loss_w_k * DegreeKiloHours

calculate_fabric_heat_loss(building_stock) ==
    [k \in 1..Len(building_stock) |->
        [i |-> building_stock[k].index,
         v |-> Rat(htuse_calculate_heat_loss_per_year(
                       fab_calculate_fabric_heat_loss(building_stock[k])), 100)]]

----------------------------------------------------------------------------
\* Filters.

ber_bands_options == {"All", "A-B", "C-D", "E-G"}

\* .str[0] of a rating label; a missing rating stays missing.
FirstLetter(label) ==
    CASE label \in {"A1", "A2", "A3"} -> "A" [] label \in {"B1", "B2", "B3"} -> "B"
      [] label \in {"C1", "C2", "C3"} -> "C" [] label \in {"D1", "D2"} -> "D"
      [] label \in {"E1", "E2"} -> "E" [] label = "F" -> "F" [] label = "G" -> "G"
      [] OTHER -> "nan"

filter_by_ber_level(building_stock, selected_ber_rating) ==
    LET building_stock_levels == _get_ber_rating(Column(building_stock, "energy_value"))
        level(k) == FirstLetter(building_stock_levels[k].v)
        mask == [k \in 1..Len(building_stock) |->
                    CASE selected_ber_rating = "All" -> TRUE
                      [] selected_ber_rating = "A-B" -> level(k) \in {"A", "B"}
                      [] selected_ber_rating = "C-D" -> level(k) \in {"C", "D"}
                      [] OTHER -> level(k) \in {"E", "F", "G"}]
    IN  SelectRows(building_stock, mask)

\* building_stock.query("small_area == @small_areas_selected")
filter_by_small_area(building_stock, small_areas_selected) ==
    SelectRows(building_stock,
               [k \in 1..Len(building_stock) |->
                   building_stock[k].small_area \in small_areas_selected])

----------------------------------------------------------------------------
\* Inputs: the stocks the loader may return and the widget values.

MaxDwellings == 2
MaxRows == 2
MaxValues == 2

SmallAreas == {"SA1", "SA2"}
StockEnergyValues == {140, 310}
WallUvalues == {50, 60}
WallAreas == {70}
GroundFloorAreas == {0, 100}

Dwelling(sa, ev, wu, wa, gfa) ==
    [index |-> 0, small_area |-> sa, energy_value |-> Fin(ev),
     roof_area |-> 50, roof_uvalue |-> 60,
     wall_area |-> wa, wall_uvalue |-> wu,
     floor_area |-> 50, floor_uvalue |-> 30,
     window_area |-> 16, window_uvalue |-> 60,
     door_area |-> 2, door_uvalue |-> 150,
     ground_floor_area |-> gfa, first_floor_area |-> 0,
     second_floor_area |-> 0, third_floor_area |-> 0]

\* The rows a loaded stock may hold.
DwellingTypes ==
    {Dwelling(sa, ev, wu, wa, gfa) :
        sa \in SmallAreas, ev \in StockEnergyValues, wu \in WallUvalues,
        wa \in WallAreas, gfa \in GroundFloorAreas}

\* A loaded frame: rows labelled 0..n-1.
Labelled(rows, labels) == [k \in 1..Len(rows) |-> [rows[k] EXCEPT !.index = labels[k]]]

RawStocks ==
    UNION {{Labelled(rows, [k \in 1..n |-> k - 1]) : rows \in [1..n -> DwellingTypes]} :
              n \in 1..MaxDwellings}

Percentages == {0, 50, 100}
Thresholds == {30, 50}

None == [k |-> "none"]

NoRetrofits == [c \in Components |-> None]
NoPercentages == [c \in Components |-> 0]

----------------------------------------------------------------------------
\* The script run of main.

Init ==
    /\ pc = "form"
    /\ raw_building_stock \in RawStocks
    /\ pre_retrofit_stock = <<>>
    /\ post_retrofit_stock = <<>>
    /\ total_floor_area = <<>>
    /\ pre_retrofit_fabric_heat_loss = <<>>
    /\ retrofits = NoRetrofits
    /\ percentages = NoPercentages
    /\ call = None
    /\ energy_value_improvement = <<>>
    /\ ber_ratings = None
    /\ ber_bands = None
    /\ np_random_global = RandomState(0)
    /\ first_selection = None
    /\ energy_values = <<>>
    /\ classified = None

\* main:65-85.  The form's filters, the two copies, the total floor area
\* and the heat loss before any retrofit.
FilterAndInitialise ==
    /\ pc = "form"
    /\ \E selected_ber_rating \in ber_bands_options, small_areas_selected \in SUBSET SmallAreas :
          LET stock_by_ber_rating == filter_by_ber_level(raw_building_stock, selected_ber_rating)
              stock_by_small_area == filter_by_small_area(stock_by_ber_rating, small_areas_selected)
          IN  /\ pre_retrofit_stock' = stock_by_small_area
              /\ post_retrofit_stock' = stock_by_small_area
              /\ total_floor_area' =
                    [k \in 1..Len(stock_by_small_area) |->
                        [i |-> stock_by_small_area[k].index,
                         v |-> Fin(stock_by_small_area[k].ground_floor_area
                                   + stock_by_small_area[k].first_floor_area
                                   + stock_by_small_area[k].second_floor_area
                                   + stock_by_small_area[k].third_floor_area)]]
              /\ pre_retrofit_fabric_heat_loss' = calculate_fabric_heat_loss(stock_by_small_area)
    /\ pc' = "wall"
    /\ UNCHANGED <<raw_building_stock, retrofits, percentages, call,
                   energy_value_improvement, ber_ratings, ber_bands,
                   np_random_global, first_selection, energy_values, classified>>

\* What a call of retrofit_fabric_component on the pre-retrofit stock leaves
\* behind: its locals, its return value, the frame it was handed and the
\* process-wide generator.
ApplyComponent(r) ==
    /\ call' = [x \in DOMAIN r \ {"building_stock", "g"} |-> r[x]]
    /\ pre_retrofit_stock' = r.building_stock
    /\ np_random_global' = r.g

\* The dict retrofit_fabric_component returns (lines 473-477).
Returned(r) ==
    [uvalues |-> r.uvalues,
     lower_bound_cost |-> r.lower_bound_cost,
     upper_bound_cost |-> r.upper_bound_cost]

NextStep(c) == CASE c = "wall" -> "roof" [] c = "roof" -> "window" [] c = "window" -> "recombine"

\* main:87-113.  One call per component, in the order wall, roof, window,
\* with the slider's value; threshold and costs are left at their defaults.
Retrofit(c) ==
    /\ pc = c
    /\ \E percent \in Percentages :
          LET r == retrofit_fabric_component(pre_retrofit_stock, c, percent,
                       threshold_uvalue_default(c), lower_cost_bound_default(c),
                       upper_cost_bound_default(c), np_random_global)
          IN  /\ ApplyComponent(r)
              /\ retrofits' = [retrofits EXCEPT ![c] = Returned(r)]
              /\ percentages' = [percentages EXCEPT ![c] = percent]
    /\ pc' = NextStep(c)
    /\ UNCHANGED <<raw_building_stock, post_retrofit_stock, total_floor_area,
                   pre_retrofit_fabric_heat_loss, energy_value_improvement,
                   ber_ratings, ber_bands, first_selection, energy_values, classified>>

RetrofitWall == Retrofit("wall")
RetrofitRoof == Retrofit("roof")
RetrofitWindow == Retrofit("window")

\* main:116-126.
Recombine ==
    /\ pc = "recombine"
    /\ LET with_uvalues ==
              SetColumn(SetColumn(SetColumn(post_retrofit_stock,
                  "wall_uvalue", retrofits["wall"].uvalues),
                  "roof_uvalue", retrofits["roof"].uvalues),
                  "window_uvalue", retrofits["window"].uvalues)
           post_retrofit_fabric_heat_loss == calculate_fabric_heat_loss(with_uvalues)
           improvement ==
              SeriesBinOp("truediv",
                  SeriesBinOp("sub", pre_retrofit_fabric_heat_loss,
                              post_retrofit_fabric_heat_loss),
                  total_floor_area)
       IN  /\ energy_value_improvement' = improvement
           /\ post_retrofit_stock' =
                 SetColumn(with_uvalues, "energy_value",
                     SeriesBinOp("sub", Column(with_uvalues, "energy_value"), improvement))
    /\ pc' = "plot"
    /\ UNCHANGED <<raw_building_stock, pre_retrofit_stock, total_floor_area,
                   pre_retrofit_fabric_heat_loss, retrofits, percentages, call,
                   ber_ratings, ber_bands, np_random_global, first_selection,
                   energy_values, classified>>

\* main:129-136.
Plot ==
    /\ pc = "plot"
    /\ ber_ratings' =
          [pre |-> _get_ber_rating_breakdown(Column(pre_retrofit_stock, "energy_value")),
           post |-> _get_ber_rating_breakdown(Column(post_retrofit_stock, "energy_value"))]
    /\ ber_bands' =
          [pre |-> _get_ber_band_breakdown(Column(pre_retrofit_stock, "energy_value")),
           post |-> _get_ber_band_breakdown(Column(post_retrofit_stock, "energy_value"))]
    /\ pc' = "done"
    /\ UNCHANGED <<raw_building_stock, pre_retrofit_stock, post_retrofit_stock,
                   total_floor_area, pre_retrofit_fabric_heat_loss, retrofits,
                   percentages, call, energy_value_improvement, np_random_global,
                   first_selection, energy_values, classified>>

\* A submission makes Streamlit run the script again from the top; only the
\* cached stock outlives the run.
Rerun ==
    /\ pc = "done"
    /\ pc' = "form"
    /\ pre_retrofit_stock' = <<>>
    /\ post_retrofit_stock' = <<>>
    /\ total_floor_area' = <<>>
    /\ pre_retrofit_fabric_heat_loss' = <<>>
    /\ retrofits' = NoRetrofits
    /\ percentages' = NoPercentages
    /\ call' = None
    /\ energy_value_improvement' = <<>>
    /\ ber_ratings' = None
    /\ ber_bands' = None
    /\ UNCHANGED <<raw_building_stock, np_random_global, first_selection,
                   energy_values, classified>>

Next ==
    \/ FilterAndInitialise
    \/ RetrofitWall
    \/ RetrofitRoof
    \/ RetrofitWindow
    \/ Recombine
    \/ Plot
    \/ Rerun

Spec == Init /\ [][Next]_vars

----------------------------------------------------------------------------
\* The component functions on their own: retrofit_fabric_component called
\* again and again, for any component and any widget values, on a stock as
\* main hands it over (rows in loading order, labels kept by the filters).

\* The ascending label sequences of n rows out of labels 0..MaxRows.
LabelChoices(n) ==
    {SortedSeq(L) : L \in {M \in SUBSET (0..MaxRows) : Cardinality(M) = n}}

ComponentDwellingTypes == {Dwelling("SA1", 140, wu, 70, 100) : wu \in WallUvalues}

ComponentStocks ==
    UNION {{Labelled(rows, labels) :
               rows \in [1..n -> ComponentDwellingTypes], labels \in LabelChoices(n)} :
              n \in 0..MaxRows}

InitComponent ==
    /\ pc = "component"
    /\ raw_building_stock = <<>>
    /\ pre_retrofit_stock \in ComponentStocks
    /\ post_retrofit_stock = <<>>
    /\ total_floor_area = <<>>
    /\ pre_retrofit_fabric_heat_loss = <<>>
    /\ retrofits = NoRetrofits
    /\ percentages = NoPercentages
    /\ call = None
    /\ energy_value_improvement = <<>>
    /\ ber_ratings = None
    /\ ber_bands = None
    /\ np_random_global = RandomState(0)
    /\ first_selection = None
    /\ energy_values = <<>>
    /\ classified = None

\* What a selection was given and what it returned.
Selection(r) ==
    [component |-> r.component,
     original_uvalues |-> r.original_uvalues,
     percentage_retrofitted |-> r.percentage_retrofitted,
     threshold_uvalue |-> r.threshold_uvalue,
     buildings_to_retrofit |-> r.buildings_to_retrofit]

CallComponent ==
    /\ pc = "component"
    /\ \E c \in Components, percent \in Percentages, threshold \in Thresholds :
          LET r == retrofit_fabric_component(pre_retrofit_stock, c, percent, threshold,
                       lower_cost_bound_default(c), upper_cost_bound_default(c),
                       np_random_global)
          IN  /\ ApplyComponent(r)
              /\ first_selection' =
                    IF first_selection = None THEN Selection(r) ELSE first_selection
    /\ UNCHANGED <<pc, raw_building_stock, post_retrofit_stock, total_floor_area,
                   pre_retrofit_fabric_heat_loss, retrofits, percentages,
                   energy_value_improvement, ber_ratings, ber_bands,
                   energy_values, classified>>

NextComponent == CallComponent

SpecComponent == InitComponent /\ [][NextComponent]_vars

----------------------------------------------------------------------------
\* The cost estimator on its own: one call of
\* _estimate_cost_of_fabric_retrofits on any mask, unit cost and area Series
\* of one length, the areas under any ascending row labels.  Nothing in the
\* function or its callers checks the sign of an area, and the function
\* itself takes any cost.

UnitCosts == {-5, 0, 50}
Areas == {-70, 30, 70}

CostInputs ==
    UNION {{[to_retrofit |-> m, cost |-> c,
             areas |-> [k \in 1..n |-> [i |-> labels[k], v |-> a[k]]],
             outcome |-> "pending"] :
               m \in [1..n -> BOOLEAN], c \in UnitCosts, a \in [1..n -> Areas],
               labels \in LabelChoices(n)} :
              n \in 0..MaxRows}

InitCost ==
    /\ pc = "estimate"
    /\ call \in CostInputs
    /\ raw_building_stock = <<>>
    /\ pre_retrofit_stock = <<>>
    /\ post_retrofit_stock = <<>>
    /\ total_floor_area = <<>>
    /\ pre_retrofit_fabric_heat_loss = <<>>
    /\ retrofits = NoRetrofits
    /\ percentages = NoPercentages
    /\ energy_value_improvement = <<>>
    /\ ber_ratings = None
    /\ ber_bands = None
    /\ np_random_global = RandomState(0)
    /\ first_selection = None
    /\ energy_values = <<>>
    /\ classified = None

\* The call returns its Series; the caller sums it and scales it (475).
EstimateCost ==
    /\ pc = "estimate"
    /\ LET costs == _estimate_cost_of_fabric_retrofits(call.to_retrofit, call.cost, call.areas)
       IN  call' = [to_retrofit |-> call.to_retrofit, cost |-> call.cost,
                    areas |-> call.areas, outcome |-> "returned",
                    costs |-> costs,
                    bound_cost |-> FMul(SeriesSum(costs), to_millions)]
    /\ pc' = "estimated"
    /\ UNCHANGED <<raw_building_stock, pre_retrofit_stock, post_retrofit_stock,
                   total_floor_area, pre_retrofit_fabric_heat_loss, retrofits,
                   percentages, energy_value_improvement, ber_ratings, ber_bands,
                   np_random_global, first_selection, energy_values, classified>>

NextCost == EstimateCost

SpecCost == InitCost /\ [][NextCost]_vars

----------------------------------------------------------------------------
\* The classifier on its own: both breakdowns of a Series of energy values
\* taken at, just below and just above every breakpoint, and at the specials.

Thousandths(n) == Rat(n, 1000)

Breakpoints == {RatingBins[k].n : k \in 2..(Len(RatingBins) - 1)}

EnergyValueSamples ==
    UNION {{Thousandths(1000 * b - 1), Fin(b), Thousandths(1000 * b + 1)} : b \in Breakpoints}
    \cup {NegInf, PosInf, NaN}

InitClassify ==
    /\ pc = "classify"
    /\ \E n \in 1..MaxValues :
          energy_values \in {RangeSeries(vs) : vs \in [1..n -> EnergyValueSamples]}
    /\ classified = None
    /\ raw_building_stock = <<>>
    /\ pre_retrofit_stock = <<>>
    /\ post_retrofit_stock = <<>>
    /\ total_floor_area = <<>>
    /\ pre_retrofit_fabric_heat_loss = <<>>
    /\ retrofits = NoRetrofits
    /\ percentages = NoPercentages
    /\ call = None
    /\ energy_value_improvement = <<>>
    /\ ber_ratings = None
    /\ ber_bands = None
    /\ np_random_global = RandomState(0)
    /\ first_selection = None

ClassifyRating ==
    /\ pc = "classify"
    /\ classified' = [by |-> "rating",
                      labels |-> _get_ber_rating(energy_values),
                      breakdown |-> _get_ber_rating_breakdown(energy_values)]
    /\ pc' = "classified"
    /\ UNCHANGED <<energy_values, raw_building_stock, pre_retrofit_stock,
                   post_retrofit_stock, total_floor_area, pre_retrofit_fabric_heat_loss,
                   retrofits, percentages, call, energy_value_improvement,
                   ber_ratings, ber_bands, np_random_global, first_selection>>

ClassifyBand ==
    /\ pc = "classify"
    /\ classified' = [by |-> "band",
                      labels |-> _get_ber_band(energy_values),
                      breakdown |-> _get_ber_band_breakdown(energy_values)]
    /\ pc' = "classified"
    /\ UNCHANGED <<energy_values, raw_building_stock, pre_retrofit_stock,
                   post_retrofit_stock, total_floor_area, pre_retrofit_fabric_heat_loss,
                   retrofits, percentages, call, energy_value_improvement,
                   ber_ratings, ber_bands, np_random_global, first_selection>>

NextClassify == ClassifyRating \/ ClassifyBand

SpecClassify == InitClassify /\ [][NextClassify]_vars

----------------------------------------------------------------------------
\* Properties.

Done == pc \in {"plot", "done"}

TrueAt(mask) == {k \in 1..Len(mask) : mask[k]}

\* The total area of the dwellings a mask selects.
RECURSIVE SelectedArea(_, _)
SelectedArea(areas, mask) ==
    IF areas = <<>> THEN 0
    ELSE (IF Head(mask) THEN Head(areas).v ELSE 0) + SelectedArea(Tail(areas), Tail(mask))

\* C1: after a call of retrofit_fabric_component the lower cost Series has,
\* for every dwelling of the stock, unit cost * area if the dwelling is
\* selected and 0 if it is not, and it sums to unit cost * the selected
\* dwellings' area.
C1_CostPerDwelling ==
    call # None =>
        LET areas == call.areas
            mask == call.buildings_to_retrofit
            cost == call.lower_bound_cost_input
        IN  /\ \A k \in 1..Len(areas) :
                 /\ areas[k].i \in Labels(call.lower_costs)
                 /\ call.lower_costs[At(call.lower_costs, areas[k].i)].v
                      = Fin(IF mask[k] THEN cost * areas[k].v ELSE 0)
            /\ SeriesSum(call.lower_costs)
                 = Fin(cost * SelectedArea(areas, mask))

AllPercentagesZero == \A c \in Components : percentages[c] = 0

\* C2: when the three sliders are at 0, every dwelling's post-retrofit
\* energy value is its pre-retrofit energy value.
C2_NoOpAtZeroPercent ==
    (Done /\ AllPercentagesZero) =>
        Column(post_retrofit_stock, "energy_value")
            = Column(pre_retrofit_stock, "energy_value")

\* C7: a dwelling with zero total floor area has a NaN improvement, whether
\* it was retrofitted or not, and every other dwelling's post-retrofit
\* energy value is its energy value minus its improvement.
C7_ZeroFloorAreaIsNaN ==
    Done =>
        \A k \in 1..Len(total_floor_area) :
            IF total_floor_area[k].v = Fin(0)
            THEN IsNaN(energy_value_improvement[k].v)
            ELSE post_retrofit_stock[k].energy_value
                    = FSub(pre_retrofit_stock[k].energy_value,
                           energy_value_improvement[k].v)

NegativeInput == call.cost < 0 \/ \E k \in 1..Len(call.areas) : call.areas[k].v < 0

\* C10 (SpecCost): when the unit cost or a dwelling's area is negative the
\* estimate ends in a ValidationError, not in a returned cost Series.
C10_NegativeInputsRejected ==
    (pc = "estimated" /\ NegativeInput) => call.outcome = "ValidationError"

----------------------------------------------------------------------------
\* Properties of the component functions (SpecComponent).

Eligible == {k \in 1..Len(call.original_uvalues) :
                call.original_uvalues[k].v > call.threshold_uvalue}

\* n is percent/100 * m rounded to the nearest integer, halves to even.
IsRounded(n, percent, m) ==
    LET diff == Abs(100 * n - percent * m)
    IN  diff <= 50 /\ (diff = 50 => n % 2 = 0)

\* C3: the mask has the length and order of the U-value Series, is true at
\* exactly round(fraction * |eligible|) positions, all of them eligible
\* (U-value strictly over the threshold); so 100 % marks the eligible set and
\* 0 %, or no eligible dwelling, gives an all-false mask.
C3_SelectionMask ==
    call # None =>
        LET mask == call.buildings_to_retrofit
        IN  /\ Len(mask) = Len(call.original_uvalues)
            /\ TrueAt(mask) \subseteq Eligible
            /\ IsRounded(Cardinality(TrueAt(mask)), call.percentage_retrofitted,
                         Cardinality(Eligible))
            /\ (call.percentage_retrofitted = 100 => TrueAt(mask) = Eligible)
            /\ (call.percentage_retrofitted = 0 \/ Eligible = {} => TrueAt(mask) = {})

C3_Witness ==
    /\ call # None
    /\ call.percentage_retrofitted = 50
    /\ Cardinality(Eligible) = 1
    /\ Len(call.original_uvalues) = 2
    /\ TrueAt(call.buildings_to_retrofit) = {}
    /\ call.original_uvalues[1].i # 0

\* C4: entry i of the returned Series is the new U-value where the mask is
\* true and the original entry otherwise, and the stock's U-value column is
\* after the call what it was before it.
C4_RetrofitFabric ==
    call # None =>
        /\ call.uvalues =
              [k \in 1..Len(call.original_uvalues) |->
                  [i |-> call.original_uvalues[k].i,
                   v |-> IF call.buildings_to_retrofit[k]
                         THEN target_uvalue_default(call.component)
                         ELSE call.original_uvalues[k].v]]
        /\ Column(pre_retrofit_stock, UvalueColumn(call.component))
              = call.original_uvalues

C4_Witness ==
    /\ call # None
    /\ Len(call.buildings_to_retrofit) = 2
    /\ call.buildings_to_retrofit[1]
    /\ ~call.buildings_to_retrofit[2]
    /\ call.uvalues[1].v # call.original_uvalues[1].v

SameInputs ==
    /\ call # None
    /\ first_selection # None
    /\ call.original_uvalues = first_selection.original_uvalues
    /\ call.percentage_retrofitted = first_selection.percentage_retrofitted
    /\ call.threshold_uvalue = first_selection.threshold_uvalue

\* C8: a selection with the U-value Series, threshold and fraction of the
\* first selection of the process returns the mask that one returned,
\* whatever was selected in between.
C8_SelectionDeterministic ==
    SameInputs => call.buildings_to_retrofit = first_selection.buildings_to_retrofit

\* A later call for another component, with the same Series and a proper
\* random draw (one of two eligible dwellings).
C8_Witness ==
    /\ SameInputs
    /\ call.component # first_selection.component
    /\ Cardinality(Eligible) = 2
    /\ Cardinality(TrueAt(call.buildings_to_retrofit)) = 1

----------------------------------------------------------------------------
\* Properties of the classifier (SpecClassify).

ClassifiedBy(by) == classified # None /\ classified.by = by

\* The label given to every occurrence of value v is l.
LabelOf(v, l) ==
    \A k \in 1..Len(energy_values) :
        energy_values[k].v = v => classified.labels[k].v = l

\* C5 as stated: 25.0 is rated "A2", 24.999 "A1", 450.0 "F", 450.001 "G".
C5_RatingBoundariesAsStated ==
    ClassifiedBy("rating") =>
        /\ LabelOf(Fin(25), "A2")
        /\ LabelOf(Thousandths(24999), "A1")
        /\ LabelOf(Fin(450), "F")
        /\ LabelOf(Thousandths(450001), "G")

\* C5 amended: 25.0 is rated "A1" (the bins are closed on the right), 24.999
\* "A1", 450.0 "F", 450.001 "G".
C5_RatingBoundaries ==
    ClassifiedBy("rating") =>
        /\ LabelOf(Fin(25), "A1")
        /\ LabelOf(Thousandths(24999), "A1")
        /\ LabelOf(Fin(450), "F")
        /\ LabelOf(Thousandths(450001), "G")

C5_Witness ==
    /\ ClassifiedBy("rating")
    /\ Values(energy_values) = <<Fin(25), Thousandths(450001)>>

Rank(l) == CHOOSE k \in 1..Len(RatingLabels) : RatingLabels[k] = l

\* C6: every energy value that is a number, the infinities included, gets
\* one of the 15 labels, and a smaller value never gets a later label.
C6_RatingTotalMonotonic ==
    ClassifiedBy("rating") =>
        /\ \A k \in 1..Len(energy_values) :
              ~IsNaN(energy_values[k].v) => classified.labels[k].v \in Range(RatingLabels)
        /\ \A j, k \in 1..Len(energy_values) :
              (/\ FLe(energy_values[j].v, energy_values[k].v)
               /\ classified.labels[j].v \in Range(RatingLabels)
               /\ classified.labels[k].v \in Range(RatingLabels))
              => Rank(classified.labels[j].v) <= Rank(classified.labels[k].v)

\* C9: 150.0 is in band "A-B", 150.001 in "C-D", 300.0 in "C-D" and 300.001
\* in "E-G".
C9_BandBoundaries ==
    ClassifiedBy("band") =>
        /\ LabelOf(Fin(150), "A-B")
        /\ LabelOf(Thousandths(150001), "C-D")
        /\ LabelOf(Fin(300), "C-D")
        /\ LabelOf(Thousandths(300001), "E-G")

C9_Witness ==
    /\ ClassifiedBy("band")
    /\ Values(energy_values) = <<Fin(300), Thousandths(150001)>>

====
